---- MODULE Spec2Model ----
(***************************************************************************)
(* Model of `git stack run` (RunArgs::exec, src/bin/git-stack/run.rs):     *)
(* the cascade of a command over the commits of the current stack.         *)
(*                                                                         *)
(* Options (Option<T>) are sets with at most one element: None == {} and   *)
(* Some(x) == {x}.  Commits are numbers; the merge base is commit 0 and    *)
(* the stack graph is a tree given by the parent of every other commit.    *)
(***************************************************************************)
EXTENDS Integers, Sequences, FiniteSets, TLC

VARIABLES
    args,          \* RunArgs: dry_run, switch, fail_fast, no_fail_fast
    parent,        \* the stack graph: parent[n] of every commit n below the merge base
    branched,      \* commits with a local branch attached
    base_found,    \* whether repo.merge_base(base, HEAD) finds a commit
    orig,          \* the position of HEAD when the run starts
    orig_dirty,    \* whether the working tree is dirty when the run starts
    pos,           \* repo: the position of HEAD / the working tree
    dirty,         \* repo: is_dirty()
    stashed,       \* repo: the run's stash entry is on the stash list
    stash_id,      \* exec local
    head_branch,   \* exec local
    head_id,       \* exec local
    first_failure, \* exec local
    success,       \* exec local
    cursor,        \* exec local
    current_id,    \* exec local (loop variable)
    current_success, \* exec local
    status,        \* exec local (loop body): what Command::status() returned
    pc,            \* position in exec
    result,        \* once the process ended: its exit code and the place that ended it
    trace          \* what the run did so far, in order

vars == <<args, parent, branched, base_found, orig, orig_dirty, pos, dirty, stashed, stash_id,
          head_branch, head_id, first_failure, success, cursor, current_id,
          current_success, status, pc, result, trace>>

inputVars == <<args, parent, branched, base_found, orig, orig_dirty>>
repoVars == <<pos, dirty, stashed>>
walkVars == <<first_failure, success, cursor, current_id, current_success, status>>

\* Bound on the number of commits below the merge base.
MaxNodes == 3

\* Exit codes (proc_exit::Code and proc_exit::sysexits); a panic ends the
\* process with the code of the Rust runtime.
SUCCESS == 0
FAILURE == 1
USAGE_ERR == 64
CONFIG_ERR == 78
PANIC == 101

None == {}
Some(x) == {x}

merge_base_oid == 0

\* ------------------------------------------------------------------ graph

Nodes == DOMAIN parent

RECURSIVE Ancestors(_)
\* The proper ancestors of n, the merge base included.
Ancestors(n) ==
    IF n = merge_base_oid THEN {} ELSE {parent[n]} \cup Ancestors(parent[n])

\* The proper descendants of n in the stack graph.
Descendants(n) == {m \in Nodes : n \in Ancestors(m)}

Children(n) == {m \in Nodes : parent[m] = n}

RECURSIVE SortedSeq(_)
SortedSeq(S) ==
    IF S = {} THEN <<>>
    ELSE LET m == CHOOSE x \in S : \A y \in S : x <= y
         IN <<m>> \o SortedSeq(S \ {m})

\* The children of n, in the order they were attached to the graph.
children_of(n) == SortedSeq(Children(n))

\* ----------------------------------------------------------------- cursor

\* graph.descendants_of(root).into_cursor(): the frontier starts with the
\* direct children of the root; the root is only the anchor.
into_cursor(root) ==
    [frontier |-> children_of(root), stopped |-> {}, last |-> None]

RECURSIVE cursor_next(_)
\* cursor.next(&graph): pops the first ready commit that is not under a
\* stopped subtree, enqueues its children; out is None when exhausted.
cursor_next(c) ==
    IF c.frontier = <<>> THEN [cursor |-> c, out |-> None]
    ELSE LET n == Head(c.frontier)
         IN IF Ancestors(n) \cap c.stopped # {}
            THEN cursor_next([c EXCEPT !.frontier = Tail(@)])
            ELSE [cursor |-> [frontier |-> Tail(c.frontier) \o children_of(n),
                              stopped |-> c.stopped,
                              last |-> Some(n)],
                  out |-> Some(n)]

\* cursor.stop(): the subtree of the commit yielded last is stopped.
cursor_stop(c) == [c EXCEPT !.stopped = @ \cup c.last]

\* ------------------------------------------------------------ trace events

Ev(name, id) == [ev |-> name, id |-> id]

Emit(name, id) == Append(trace, Ev(name, id))

EventsOf(names) == {i \in 1..Len(trace) : trace[i].ev \in names}

CheckoutEvents == {"switch_commit", "switch_branch", "checkout_failed"}

\* ------------------------------------------------------------------- args

resolve_bool_arg(yes, no) ==
    CASE yes /\ ~no -> Some(TRUE)
      [] ~yes /\ no -> Some(FALSE)
      [] ~yes /\ ~no -> None

unwrap_or(opt, default) == IF opt = None THEN default ELSE CHOOSE x \in opt : TRUE

\* fail_fast with the default of the flag pair inverted.
fail_fast_default_off ==
    unwrap_or(resolve_bool_arg(args.fail_fast, args.no_fail_fast), FALSE)

fail_fast == unwrap_or(resolve_bool_arg(args.fail_fast, args.no_fail_fast), TRUE)

\* ------------------------------------------------------------------- Init

\* The trees on the commits 1..n: the parent of a commit is an earlier commit.
Trees(n) == {p \in [1..n -> 0..(n-1)] : \A k \in 1..n : p[k] < k}

Leaves(p) == {n \in DOMAIN p : \A m \in DOMAIN p : p[m] # n}

Init ==
    /\ args \in {a \in [dry_run : BOOLEAN, switch : BOOLEAN,
                        fail_fast : BOOLEAN, no_fail_fast : BOOLEAN] :
                   ~(a.fail_fast /\ a.no_fail_fast)}
    /\ \E n \in 1..MaxNodes : parent \in Trees(n)
    /\ \E onBranch \in BOOLEAN, h \in {merge_base_oid} \cup DOMAIN parent :
          /\ orig = [kind |-> IF onBranch THEN "branch" ELSE "commit", id |-> h]
          /\ branched = Leaves(parent) \cup (IF onBranch THEN {h} ELSE {})
    /\ base_found \in BOOLEAN
    /\ pos = orig
    /\ orig_dirty \in BOOLEAN
    /\ dirty = orig_dirty
    /\ stashed = FALSE
    /\ stash_id = None
    /\ head_branch = None
    /\ head_id = merge_base_oid   \* not yet read; assigned by ResolveBase
    /\ first_failure = None
    /\ success = TRUE
    /\ cursor = [frontier |-> <<>>, stopped |-> {}, last |-> None]
    /\ current_id = None
    /\ current_success = TRUE
    /\ status = None
    /\ pc = "start"
    /\ result = None
    /\ trace = <<>>

\* The run ends with the given exit code, at the given place of exec.
Exit(code, site) == pc' = "done" /\ result' = Some([code |-> code, site |-> site])

Ended == pc = "done"
ExitCode == (CHOOSE r \in result : TRUE).code
ExitSite == (CHOOSE r \in result : TRUE).site

\* ---------------------------------------------------------- collaborators

\* git_stack::git::stash_push(&mut repo, "run"): the outcomes of stashing the
\* uncommitted changes.  A clean tree has nothing to stash; on a dirty tree
\* the stash is created and the tree becomes clean, or stashing fails and
\* nothing changes.
stash_push ==
    IF dirty
    THEN {[id |-> Some(1), dirty |-> FALSE, stashed |-> TRUE],
          [id |-> None, dirty |-> TRUE, stashed |-> stashed]}
    ELSE {[id |-> None, dirty |-> FALSE, stashed |-> stashed]}

\* The position after a successful checkout of commit n by ops::switch: its
\* branch when it has one, the detached commit otherwise.
switch_target(n) ==
    [kind |-> IF n \in branched THEN "branch" ELSE "commit", id |-> n]

\* ------------------------------------------------------------------ exec

\* Discovery of the repository, configuration, protected branches and the
\* branch set.
Preflight ==
    /\ pc = "start"
    /\ \E outcome \in {"ok", "no_repo", "bad_config", "bad_branches"} :
          CASE outcome = "ok" -> pc' = "stash" /\ result' = result
            [] outcome = "no_repo" -> Exit(USAGE_ERR, "no_repo")
            [] outcome = "bad_config" -> Exit(CONFIG_ERR, "bad_config")
            [] outcome = "bad_branches" -> Exit(FAILURE, "bad_branches")
    /\ UNCHANGED <<inputVars, repoVars, walkVars, stash_id, head_branch, head_id, trace>>

\* StashPush stashing in every real run, also with --switch.
StashPush_IgnoresSwitch ==
    /\ pc = "stash"
    /\ IF ~args.dry_run
       THEN \E o \in stash_push :
               /\ stash_id' = o.id
               /\ dirty' = o.dirty
               /\ stashed' = o.stashed
               /\ trace' = IF o.id # None THEN Emit("stash_push", 0) ELSE trace
       ELSE /\ stash_id' = None
            /\ UNCHANGED <<dirty, stashed, trace>>
    /\ pc' = "dirty"
    /\ UNCHANGED <<inputVars, pos, walkVars, head_branch, head_id, result>>

\* let mut stash_id = None; if !dry_run && !switch { stash_id = stash_push() }
StashPush ==
    /\ pc = "stash"
    /\ IF ~args.dry_run /\ ~args.switch
       THEN \E o \in stash_push :
               /\ stash_id' = o.id
               /\ dirty' = o.dirty
               /\ stashed' = o.stashed
               /\ trace' = IF o.id # None THEN Emit("stash_push", 0) ELSE trace
       ELSE /\ stash_id' = None
            /\ UNCHANGED <<dirty, stashed, trace>>
    /\ pc' = "dirty"
    /\ UNCHANGED <<inputVars, pos, walkVars, head_branch, head_id, result>>

\* DirtyCheck reporting the dirty tree in a real run as it does in a dry run.
DirtyCheck_OnlyWarns ==
    /\ pc = "dirty"
    /\ trace' = IF dirty THEN Emit("dirty_error", 0) ELSE trace
    /\ pc' = "base"
    /\ UNCHANGED <<inputVars, repoVars, walkVars, stash_id, head_branch, head_id, result>>

\* if repo.is_dirty() { dry run: report; otherwise: usage error }
DirtyCheck ==
    /\ pc = "dirty"
    /\ IF dirty
       THEN IF args.dry_run
            THEN /\ trace' = Emit("dirty_error", 0)
                 /\ pc' = "base"
                 /\ result' = result
            ELSE /\ Exit(USAGE_ERR, "dirty")
                 /\ trace' = trace
       ELSE /\ pc' = "base"
            /\ UNCHANGED <<result, trace>>
    /\ UNCHANGED <<inputVars, repoVars, walkVars, stash_id, head_branch, head_id>>

\* ResolveBase reporting a missing merge base with the generic failure code.
ResolveBase_FailureOnNoBase ==
    /\ pc = "base"
    /\ head_branch' = IF pos.kind = "branch" THEN Some(pos.id) ELSE None
    /\ head_id' = pos.id
    /\ IF base_found
       THEN pc' = "graph" /\ result' = result
       ELSE Exit(FAILURE, "no_base")
    /\ UNCHANGED <<inputVars, repoVars, walkVars, stash_id, trace>>

\* head_branch, head_id, the implicit base and the merge base.
ResolveBase ==
    /\ pc = "base"
    /\ head_branch' = IF pos.kind = "branch" THEN Some(pos.id) ELSE None
    /\ head_id' = pos.id
    /\ IF base_found
       THEN pc' = "graph" /\ result' = result
       ELSE Exit(USAGE_ERR, "no_base")
    /\ UNCHANGED <<inputVars, repoVars, walkVars, stash_id, trace>>

\* BuildGraph starting the cursor below HEAD instead of the merge base.
BuildGraph_FromHead ==
    /\ pc = "graph"
    /\ \E ok \in BOOLEAN :
          IF ok
          THEN /\ first_failure' = None
               /\ success' = TRUE
               /\ cursor' = into_cursor(head_id)
               /\ pc' = "loop"
               /\ result' = result
          ELSE /\ Exit(FAILURE, "graph")
               /\ UNCHANGED <<first_failure, success, cursor>>
    /\ UNCHANGED <<inputVars, repoVars, stash_id, head_branch, head_id,
                   current_id, current_success, status, trace>>

\* The dependents, the graph, and the cursor below the merge base.
BuildGraph ==
    /\ pc = "graph"
    /\ \E ok \in BOOLEAN :
          IF ok
          THEN /\ first_failure' = None
               /\ success' = TRUE
               /\ cursor' = into_cursor(merge_base_oid)
               /\ pc' = "loop"
               /\ result' = result
          ELSE /\ Exit(FAILURE, "graph")
               /\ UNCHANGED <<first_failure, success, cursor>>
    /\ UNCHANGED <<inputVars, repoVars, stash_id, head_branch, head_id,
                   current_id, current_success, status, trace>>

\* LoopNext taking a fresh cursor below the merge base at every iteration.
LoopNext_FreshCursor ==
    /\ pc = "loop"
    /\ LET r == cursor_next(into_cursor(merge_base_oid))
       IN /\ cursor' = r.cursor
          /\ current_id' = r.out
          /\ IF r.out = None
             THEN pc' = "post" /\ trace' = trace
             ELSE /\ pc' = "checkout"
                  /\ trace' = Emit("Switching", CHOOSE n \in r.out : TRUE)
    /\ UNCHANGED <<inputVars, repoVars, stash_id, head_branch, head_id,
                   first_failure, success, current_success, status, result>>

\* while let Some(current_id) = cursor.next(&graph) { "Switching to ..." }
LoopNext ==
    /\ pc = "loop"
    /\ LET r == cursor_next(cursor)
       IN /\ cursor' = r.cursor
          /\ current_id' = r.out
          /\ IF r.out = None
             THEN pc' = "post" /\ trace' = trace
             ELSE /\ pc' = "checkout"
                  /\ trace' = Emit("Switching", CHOOSE n \in r.out : TRUE)
    /\ UNCHANGED <<inputVars, repoVars, stash_id, head_branch, head_id,
                   first_failure, success, current_success, status, result>>

Current == CHOOSE n \in current_id : TRUE

\* Checkout without the dry-run guard.
Checkout_IgnoresDryRun ==
    /\ pc = "checkout"
    /\ \E ok \in BOOLEAN :
          IF ok
          THEN /\ pos' = [kind |-> "commit", id |-> Current]
               /\ trace' = Emit("switch_commit", Current)
               /\ pc' = "command"
               /\ result' = result
          ELSE /\ trace' = Emit("checkout_failed", Current)
               /\ Exit(FAILURE, "checkout")
               /\ pos' = pos
    /\ UNCHANGED <<inputVars, dirty, stashed, walkVars, stash_id, head_branch, head_id>>

\* Checkout ignoring the error of a failed switch_commit.
Checkout_ContinuesOnError ==
    /\ pc = "checkout"
    /\ IF ~args.dry_run
       THEN \E ok \in BOOLEAN :
               IF ok
               THEN /\ pos' = [kind |-> "commit", id |-> Current]
                    /\ trace' = Emit("switch_commit", Current)
               ELSE /\ trace' = Emit("checkout_failed", Current)
                    /\ pos' = pos
       ELSE UNCHANGED <<pos, trace>>
    /\ pc' = "command"
    /\ UNCHANGED <<inputVars, dirty, stashed, walkVars, stash_id, head_branch, head_id, result>>

\* if !dry_run { repo.switch_commit(current_id).with_code(FAILURE)? }
Checkout ==
    /\ pc = "checkout"
    /\ IF ~args.dry_run
       THEN \E ok \in BOOLEAN :
               IF ok
               THEN /\ pos' = [kind |-> "commit", id |-> Current]
                    /\ trace' = Emit("switch_commit", Current)
                    /\ pc' = "command"
                    /\ result' = result
               ELSE /\ trace' = Emit("checkout_failed", Current)
                    /\ Exit(FAILURE, "checkout")
                    /\ pos' = pos
       ELSE /\ pc' = "command"
            /\ UNCHANGED <<pos, trace, result>>
    /\ UNCHANGED <<inputVars, dirty, stashed, walkVars, stash_id, head_branch, head_id>>

\* The outcomes of std::process::Command::status().
Statuses == {"exit_zero", "exit_code", "signal", "spawn_error"}

\* RunCommand propagating a spawn failure as an error of the run.
RunCommand_SpawnErrorAborts ==
    /\ pc = "command"
    /\ \E st \in Statuses :
          /\ status' = Some(st)
          /\ current_success' = (st = "exit_zero")
          /\ trace' = trace \o
                <<[ev |-> "command", id |-> Current, ok |-> st = "exit_zero"],
                  Ev(IF st = "exit_zero" THEN "Success" ELSE "Failed", Current)>>
          /\ IF st = "spawn_error"
             THEN Exit(FAILURE, "command")
             ELSE pc' = "record" /\ result' = result
    /\ UNCHANGED <<inputVars, repoVars, stash_id, head_branch, head_id,
                   first_failure, success, cursor, current_id>>

\* RunCommand reporting before the command has run.
RunCommand_ReportFirst ==
    /\ pc = "command"
    /\ \E st \in Statuses :
          /\ status' = Some(st)
          /\ current_success' = (st = "exit_zero")
          /\ trace' = trace \o
                <<Ev(IF st = "exit_zero" THEN "Success" ELSE "Failed", Current),
                  [ev |-> "command", id |-> Current, ok |-> st = "exit_zero"]>>
    /\ pc' = "record"
    /\ UNCHANGED <<inputVars, repoVars, stash_id, head_branch, head_id,
                   first_failure, success, cursor, current_id, result>>

\* Runs the command and reports "Success" or "Failed".
RunCommand ==
    /\ pc = "command"
    /\ \E st \in Statuses :
          /\ status' = Some(st)
          /\ current_success' = (st = "exit_zero")
          /\ trace' = trace \o
                <<[ev |-> "command", id |-> Current, ok |-> st = "exit_zero"],
                  Ev(IF st = "exit_zero" THEN "Success" ELSE "Failed", Current)>>
    /\ pc' = "record"
    /\ UNCHANGED <<inputVars, repoVars, stash_id, head_branch, head_id,
                   first_failure, success, cursor, current_id, result>>

\* RecordFailure with success tracking the latest command only.
RecordFailure_Overwrite ==
    /\ pc = "record"
    /\ status' = None
    /\ IF ~current_success
       THEN /\ first_failure' = IF first_failure = None THEN current_id ELSE first_failure
            /\ cursor' = IF fail_fast THEN cursor_stop(cursor) ELSE cursor
       ELSE UNCHANGED <<first_failure, cursor>>
    /\ success' = current_success
    /\ pc' = "loop"
    /\ UNCHANGED <<inputVars, repoVars, stash_id, head_branch, head_id,
                   current_id, current_success, result, trace>>

\* RecordFailure stopping the cursor whatever the fail-fast policy.
RecordFailure_AlwaysStops ==
    /\ pc = "record"
    /\ status' = None
    /\ IF ~current_success
       THEN /\ first_failure' = IF first_failure = None THEN current_id ELSE first_failure
            /\ cursor' = cursor_stop(cursor)
            /\ success' = FALSE
       ELSE UNCHANGED <<first_failure, success, cursor>>
    /\ pc' = "loop"
    /\ UNCHANGED <<inputVars, repoVars, stash_id, head_branch, head_id,
                   current_id, current_success, result, trace>>

\* RecordFailure overwriting first_failure with every failure.
RecordFailure_LastWins ==
    /\ pc = "record"
    /\ status' = None
    /\ IF ~current_success
       THEN /\ first_failure' = current_id
            /\ cursor' = IF fail_fast THEN cursor_stop(cursor) ELSE cursor
            /\ success' = FALSE
       ELSE UNCHANGED <<first_failure, success, cursor>>
    /\ pc' = "loop"
    /\ UNCHANGED <<inputVars, repoVars, stash_id, head_branch, head_id,
                   current_id, current_success, result, trace>>

\* RecordFailure that does not record the failing commit.
RecordFailure_NoFirstFailure ==
    /\ pc = "record"
    /\ status' = None
    /\ IF ~current_success
       THEN /\ cursor' = IF fail_fast THEN cursor_stop(cursor) ELSE cursor
            /\ success' = FALSE
       ELSE UNCHANGED <<success, cursor>>
    /\ first_failure' = first_failure
    /\ pc' = "loop"
    /\ UNCHANGED <<inputVars, repoVars, stash_id, head_branch, head_id,
                   current_id, current_success, result, trace>>

\* if !current_success { first_failure.get_or_insert; stop; success = false }
RecordFailure ==
    /\ pc = "record"
    /\ status' = None
    /\ IF ~current_success
       THEN /\ first_failure' = IF first_failure = None THEN current_id ELSE first_failure
            /\ cursor' = IF fail_fast THEN cursor_stop(cursor) ELSE cursor
            /\ success' = FALSE
       ELSE UNCHANGED <<first_failure, success, cursor>>
    /\ pc' = "loop"
    /\ UNCHANGED <<inputVars, repoVars, stash_id, head_branch, head_id,
                   current_id, current_success, result, trace>>

\* The branch of the post-flight that moves to the first failure.
SwitchToFailure ==
    IF stash_id # None
    THEN \* assert!(stash_id.is_none())
         /\ Exit(PANIC, "assert")
         /\ UNCHANGED <<repoVars, trace>>
    ELSE IF ~args.dry_run
    THEN \E ok \in BOOLEAN :
            LET target == CHOOSE n \in first_failure : TRUE
            IN IF ok
               THEN /\ pos' = switch_target(target)
                    /\ trace' = Emit(IF target \in branched THEN "switch_branch"
                                     ELSE "switch_commit", target)
                    /\ pc' = "finish"
                    /\ UNCHANGED <<dirty, stashed, result>>
               ELSE /\ trace' = Emit("checkout_failed", target)
                    /\ Exit(FAILURE, "switch")
                    /\ UNCHANGED repoVars
    ELSE /\ pc' = "finish"
         /\ UNCHANGED <<repoVars, trace, result>>

\* Restore checking out the head commit even when HEAD was on a branch.
Restore_Detached ==
    IF ~args.dry_run
    THEN \E ok \in BOOLEAN :
            IF ok
            THEN /\ pos' = [kind |-> "commit", id |-> head_id]
                 /\ dirty' = (dirty \/ stash_id # None)
                 /\ stashed' = (stashed /\ stash_id = None)
                 /\ trace' = trace
                       \o <<Ev("switch_commit", head_id)>>
                       \o (IF stash_id # None THEN <<Ev("stash_pop", 0)>> ELSE <<>>)
                 /\ pc' = "finish"
                 /\ result' = result
            ELSE /\ trace' = Emit("checkout_failed", head_id)
                 /\ Exit(FAILURE, "restore")
                 /\ UNCHANGED repoVars
    ELSE /\ dirty' = (dirty \/ stash_id # None)
         /\ stashed' = (stashed /\ stash_id = None)
         /\ trace' = IF stash_id # None THEN Emit("stash_pop", 0) ELSE trace
         /\ pc' = "finish"
         /\ UNCHANGED <<pos, result>>

\* Restore popping the stash before the restoring checkout.
Restore_PopFirst ==
    IF ~args.dry_run
    THEN \E ok \in BOOLEAN :
            /\ dirty' = (dirty \/ stash_id # None)
            /\ stashed' = (stashed /\ stash_id = None)
            /\ IF ok
               THEN /\ pos' = [kind |-> IF head_branch # None THEN "branch" ELSE "commit",
                               id |-> head_id]
                    /\ trace' = trace
                          \o (IF stash_id # None THEN <<Ev("stash_pop", 0)>> ELSE <<>>)
                          \o <<Ev(IF head_branch # None THEN "switch_branch"
                                  ELSE "switch_commit", head_id)>>
                    /\ pc' = "finish"
                    /\ result' = result
               ELSE /\ trace' = trace
                          \o (IF stash_id # None THEN <<Ev("stash_pop", 0)>> ELSE <<>>)
                          \o <<Ev("checkout_failed", head_id)>>
                    /\ Exit(FAILURE, "restore")
                    /\ pos' = pos
    ELSE /\ dirty' = (dirty \/ stash_id # None)
         /\ stashed' = (stashed /\ stash_id = None)
         /\ trace' = IF stash_id # None THEN Emit("stash_pop", 0) ELSE trace
         /\ pc' = "finish"
         /\ UNCHANGED <<pos, result>>

\* The branch of the post-flight that restores the original position and
\* pops the stash.
Restore ==
    IF ~args.dry_run
    THEN \E ok \in BOOLEAN :
            IF ok
            THEN /\ pos' = [kind |-> IF head_branch # None THEN "branch" ELSE "commit",
                            id |-> head_id]
                 /\ dirty' = (dirty \/ stash_id # None)
                 /\ stashed' = (stashed /\ stash_id = None)
                 /\ trace' = trace
                       \o <<Ev(IF head_branch # None THEN "switch_branch"
                               ELSE "switch_commit", head_id)>>
                       \o (IF stash_id # None THEN <<Ev("stash_pop", 0)>> ELSE <<>>)
                 /\ pc' = "finish"
                 /\ result' = result
            ELSE /\ trace' = Emit("checkout_failed", head_id)
                 /\ Exit(FAILURE, "restore")
                 /\ UNCHANGED repoVars
    ELSE /\ dirty' = (dirty \/ stash_id # None)
         /\ stashed' = (stashed /\ stash_id = None)
         /\ trace' = IF stash_id # None THEN Emit("stash_pop", 0) ELSE trace
         /\ pc' = "finish"
         /\ UNCHANGED <<pos, result>>

\* PostFlight without the switch-to-failure branch.
PostFlight_AlwaysRestore ==
    /\ pc = "post"
    /\ Restore
    /\ UNCHANGED <<inputVars, walkVars, stash_id, head_branch, head_id>>

\* PostFlight switching to the first failure also when it is the head commit.
PostFlight_SwitchEvenAtHead ==
    /\ pc = "post"
    /\ IF ~success /\ args.switch
       THEN SwitchToFailure
       ELSE Restore
    /\ UNCHANGED <<inputVars, walkVars, stash_id, head_branch, head_id>>

PostFlight ==
    /\ pc = "post"
    /\ IF ~success /\ args.switch /\ first_failure # Some(head_id)
       THEN SwitchToFailure
       ELSE Restore
    /\ UNCHANGED <<inputVars, walkVars, stash_id, head_branch, head_id>>

\* Finish reporting a failed cascade with the usage code.
Finish_UsageOnFailure ==
    /\ pc = "finish"
    /\ IF success THEN Exit(SUCCESS, "result") ELSE Exit(USAGE_ERR, "result")
    /\ UNCHANGED <<inputVars, repoVars, walkVars, stash_id, head_branch, head_id, trace>>

\* if success { Ok(()) } else { Err(Code::FAILURE) }
Finish ==
    /\ pc = "finish"
    /\ IF success THEN Exit(SUCCESS, "result") ELSE Exit(FAILURE, "result")
    /\ UNCHANGED <<inputVars, repoVars, walkVars, stash_id, head_branch, head_id, trace>>

Next ==
    \/ Preflight
    \/ StashPush
    \/ DirtyCheck
    \/ ResolveBase
    \/ BuildGraph
    \/ LoopNext
    \/ Checkout
    \/ RunCommand
    \/ RecordFailure
    \/ PostFlight
    \/ Finish

Spec == Init /\ [][Next]_vars

\* The run is a sequential program: every enabled step is eventually taken.
FairSpec == Spec /\ WF_vars(Next)

TypeOK ==
    /\ pc \in {"start", "stash", "dirty", "base", "graph", "loop", "checkout",
               "command", "record", "post", "finish", "done"}
    /\ \A r \in result : r.code \in {SUCCESS, FAILURE, USAGE_ERR, CONFIG_ERR, PANIC}
    /\ (pc = "done") = (result # None)
    /\ first_failure \subseteq Nodes
    /\ current_id \subseteq Nodes
    /\ status \subseteq Statuses
    /\ (status # None) = (pc = "record")

\* ------------------------------------------------------------- properties

CommandEvents == EventsOf({"command"})

\* The commits the command was run on, and those it failed on.
Visited == {trace[i].id : i \in CommandEvents}
FailedCmds == {i \in CommandEvents : ~trace[i].ok}
FailedNodes == {trace[i].id : i \in FailedCmds}

\* The commits the cursor yielded.
Yielded == {trace[i].id : i \in EventsOf({"Switching"})}

NoCheckoutFailed == EventsOf({"checkout_failed"}) = {}

\* The loop of the walk was left because the cursor was exhausted.
WalkCompleted ==
    \/ pc \in {"post", "finish"}
    \/ Ended /\ ExitSite \in {"result", "switch", "restore", "assert"}

\* The run got past the pre-flight and the dirty check.
PastDirtyCheck ==
    \/ pc \in {"base", "graph", "loop", "checkout", "command", "record", "post", "finish"}
    \/ Ended /\ ExitSite \notin {"no_repo", "bad_config", "bad_branches", "dirty"}

\* The commits below a failed commit.
Pruned == UNION {Descendants(f) : f \in FailedNodes}

RunsOn(n) == {i \in CommandEvents : trace[i].id = n}

\* C1: exec returns success only if the command succeeded on every visited
\* commit; once a command failed, success is false for the rest of the run
\* and the exit code is non-zero whatever later commits do.
C1_SuccessOnlyIfAllSucceeded ==
    /\ (FailedCmds # {} /\ pc # "record") => ~success
    /\ Ended => (ExitCode = SUCCESS => FailedCmds = {})

C1_Witness ==
    /\ Ended
    /\ ExitSite = "result"
    /\ ExitCode = FAILURE
    /\ \E i \in FailedCmds : \E j \in CommandEvents \ FailedCmds : i < j

FailFastActive == ~args.no_fail_fast

\* C3: with fail-fast, the cursor is stopped at exactly the failed commits
\* as soon as the failure is recorded, no commit below a failed commit is
\* ever yielded or run, and when the walk completes the commits not visited
\* are exactly the descendants of the failed commits.
C3_FailFastPrunesDescendants ==
    FailFastActive =>
        /\ pc # "record" => cursor.stopped = FailedNodes
        /\ Yielded \cap Pruned = {}
        /\ Visited \cap Pruned = {}
        /\ WalkCompleted => Visited = Nodes \ Pruned

C3_Witness ==
    /\ FailFastActive
    /\ pc = "post"
    /\ FailedNodes = {1}
    /\ Descendants(1) # {}
    /\ Visited \ {1} # {}

C5_DryRunTouchesNothing ==
    args.dry_run =>
        /\ EventsOf(CheckoutEvents \cup {"stash_push", "stash_pop"}) = {}
        /\ pos = orig
        /\ dirty = orig_dirty
        /\ ~stashed
        /\ stash_id = None
        /\ Ended => ExitSite # "dirty"
        /\ (orig_dirty /\ PastDirtyCheck) => EventsOf({"dirty_error"}) # {}

C5_Witness ==
    /\ args.dry_run
    /\ args.switch
    /\ orig_dirty
    /\ Ended
    /\ ExitSite = "result"
    /\ FailedNodes # {}
    /\ first_failure # Some(head_id)
    /\ Cardinality(Visited) >= 2

\* The post-flight took the switch-to-failure branch.
TookSwitchPath ==
    /\ WalkCompleted
    /\ ~success
    /\ args.switch
    /\ first_failure # Some(head_id)

\* C6: at most one stash is created, and whenever a run that created a stash
\* has ended, the stash has been popped, unless the run took the
\* switch-to-failure path.
C6_StashAlwaysPopped ==
    /\ Cardinality(EventsOf({"stash_push"})) <= 1
    /\ (Ended /\ stash_id # None /\ ~TookSwitchPath) =>
            /\ EventsOf({"stash_pop"}) # {}
            /\ ~stashed

\* C7: with --switch, not a dry run, on a dirty tree, nothing is touched (no
\* stash, no checkout, no command, HEAD and the tree as they were), the run
\* never gets past the dirty check, and the dirty check ends it with the
\* usage error.
C7_SwitchOnDirtyTreeAborts ==
    (args.switch /\ ~args.dry_run /\ orig_dirty) =>
        /\ trace = <<>>
        /\ pos = orig
        /\ dirty
        /\ ~stashed
        /\ stash_id = None
        /\ ~PastDirtyCheck
        /\ (Ended /\ ExitSite = "dirty") => ExitCode = USAGE_ERR

C7_Witness ==
    /\ args.switch
    /\ ~args.dry_run
    /\ orig_dirty
    /\ Ended
    /\ ExitSite = "dirty"
    /\ ExitCode = USAGE_ERR

\* C8: the commits are yielded and processed in a topological order of the
\* stack graph: every ancestor of a processed commit below the merge base
\* was processed before it, also when fail-fast has stopped subtrees.
C8_TopologicalOrder ==
    \A names \in {{"Switching"}, {"command"}} :
        \A i \in EventsOf(names) :
            \A a \in Ancestors(trace[i].id) \ {merge_base_oid} :
                \E j \in EventsOf(names) : j < i /\ trace[j].id = a

C8_Witness ==
    /\ FailFastActive
    /\ pc = "post"
    /\ \E i \in FailedCmds :
          \E j \in CommandEvents :
             /\ i < j
             /\ Ancestors(trace[j].id) # {merge_base_oid}

\* C9: with --no-fail-fast nothing is ever pruned: the cursor is never
\* stopped, no commit is run twice, the merge base is never yielded or run,
\* and when the walk completes the command has run exactly once on every
\* commit below the merge base, whichever commits failed.
C9_NoFailFastVisitsAll ==
    args.no_fail_fast =>
        /\ cursor.stopped = {}
        /\ \A n \in Nodes : Cardinality(RunsOn(n)) <= 1
        /\ merge_base_oid \notin Visited \cup Yielded
        /\ WalkCompleted => \A n \in Nodes : Cardinality(RunsOn(n)) = 1

C9_Witness ==
    /\ args.no_fail_fast
    /\ pc = "finish"
    /\ 1 \in FailedNodes
    /\ Descendants(1) # {}
    /\ Descendants(1) \subseteq Visited

C11_Original ==
    (Ended /\ ExitSite \in {"graph", "no_base"}) =>
        /\ ExitCode = FAILURE
        /\ ExitCode \notin {USAGE_ERR, CONFIG_ERR}
        /\ Yielded = {}
        /\ Visited = {}

\* C11 (amended): a failed graph construction ends the run with the generic
\* failure code, a missing common ancestor of the base and HEAD ends it with
\* the usage code; in both cases no commit is yielded or visited.
C11_GraphErrorCodes ==
    Ended =>
        /\ ExitSite = "graph" => ExitCode = FAILURE /\ ExitCode \notin {USAGE_ERR, CONFIG_ERR}
        /\ ExitSite = "no_base" => ExitCode = USAGE_ERR
        /\ ExitSite \in {"graph", "no_base"} => (Yielded = {} /\ Visited = {} /\ pos = orig)

C11_Witness ==
    /\ Ended
    /\ ExitSite = "graph"
    /\ ExitCode = FAILURE
    /\ base_found
    /\ Visited = {}

Min(S) == CHOOSE x \in S : \A y \in S : x <= y

\* The command whose outcome is not recorded yet.
PendingCmd == IF pc = "record" THEN {Len(trace) - 1} ELSE {}

\* The commit of the earliest of the given commands.
FirstOf(S) == IF S = {} THEN None ELSE Some(trace[Min(S)].id)

\* C12: first_failure is None until a failure is recorded and from then on
\* always the first commit, in traversal order, whose command failed, with or
\* without fail-fast; a run that switches to the failure ends on that
\* earliest failing commit.
C12_FirstFailureWins ==
    /\ first_failure = FirstOf(FailedCmds \ PendingCmd)
    /\ (Ended /\ ExitSite = "result" /\ TookSwitchPath /\ ~args.dry_run) =>
            Some(pos.id) = FirstOf(FailedCmds)

C12_Witness ==
    /\ Ended
    /\ ExitSite = "result"
    /\ args.switch
    /\ ~args.dry_run
    /\ Cardinality(FailedNodes) >= 2
    /\ first_failure = FirstOf(FailedCmds)
    /\ first_failure # Some(head_id)
    /\ pos.id \in first_failure

\* The last thing done to the repository was the restoring checkout.
EndsWithRestore ==
    /\ trace # <<>>
    /\ trace[Len(trace)] =
          Ev(IF orig.kind = "branch" THEN "switch_branch" ELSE "switch_commit", orig.id)

RestoreEvent ==
    Ev(IF orig.kind = "branch" THEN "switch_branch" ELSE "switch_commit", orig.id)

\* C14: a real run that completes the walk and does not take the
\* switch-to-failure path checks out the original branch (the original commit
\* when detached) as its post-flight step, whether or not commands failed;
\* when that checkout succeeds the tree is back on the original position and
\* the stash, if one was created, is popped right after it; when it fails no
\* stash is popped.  A stash is never popped except right after the
\* successful restoring checkout.
C14_RestoreThenPop ==
    ~args.dry_run =>
        /\ \A i \in EventsOf({"stash_pop"}) : i > 1 /\ trace[i - 1] = RestoreEvent
        /\ (Ended /\ WalkCompleted /\ ~TookSwitchPath) =>
              /\ ExitSite \in {"result", "restore"}
              /\ ExitSite = "result" =>
                    /\ pos = orig
                    /\ IF stash_id # None
                       THEN /\ trace[Len(trace)] = Ev("stash_pop", 0)
                            /\ ~stashed
                       ELSE trace[Len(trace)] = RestoreEvent
              /\ ExitSite = "restore" =>
                    /\ trace[Len(trace)] = Ev("checkout_failed", head_id)
                    /\ EventsOf({"stash_pop"}) = {}

C14_Witness ==
    /\ ~args.dry_run
    /\ ~args.switch
    /\ Ended
    /\ ExitSite = "result"
    /\ FailedNodes # {}
    /\ stash_id # None
    /\ orig.kind = "branch"
    /\ pos = orig
    /\ trace[Len(trace)] = Ev("stash_pop", 0)
    /\ trace[Len(trace) - 1] = RestoreEvent

\* The report that belongs to a command outcome.
ReportOf(st) == IF st = "exit_zero" THEN "Success" ELSE "Failed"

\* What C15 says of every state: an outcome is a success exactly for a zero
\* exit status; a run with a failed command ends at its final result or in a
\* checkout, never in the command; a completed walk has visited every commit
\* that fail-fast did not prune.
C15_Classified ==
    /\ \A i \in CommandEvents :
          /\ i < Len(trace)
          /\ trace[i + 1] = Ev(IF trace[i].ok THEN "Success" ELSE "Failed", trace[i].id)
    /\ pc = "record" =>
          /\ status # None
          /\ \A st \in status :
                /\ current_success = (st = "exit_zero")
                /\ trace[Len(trace) - 1].ok = (st = "exit_zero")
                /\ trace[Len(trace)] = Ev(ReportOf(st), Current)
    /\ pc # "record" => success = (FailedCmds = {})
    /\ (Ended /\ FailedCmds # {}) => ExitSite \in {"result", "switch", "restore", "checkout"}
    /\ WalkCompleted => Visited = Nodes \ (IF FailFastActive THEN Pruned ELSE {})

\* What C15 says of every step: after the command, whatever its outcome, the
\* run goes on to record it and then back to the cursor.
C15_GoesOn ==
    /\ pc = "command" => (pc' = "record" /\ result' = None)
    /\ pc = "record" => (pc' = "loop" /\ result' = None)

\* C15: only a zero exit status is a success; a non-zero exit, a signal and a
\* spawn failure are failures, and none of them ends the run: the walk goes
\* on with the next ready commit and the post-flight is still executed.
C15_FailuresDoNotAbort == []C15_Classified /\ [][C15_GoesOn]_vars

C15_Witness ==
    /\ pc = "record"
    /\ status = Some("spawn_error")
    /\ ~current_success
    /\ Cardinality(FailedCmds) >= 3

IsSwitching(e) == e.ev = "Switching"
IsSuccess(e) == e.ev = "Success"

\* The commits of the events of the trace that satisfy Test, in order.
IdsOf(Test(_)) ==
    LET es == SelectSeq(trace, Test) IN [i \in 1..Len(es) |-> es[i].id]

Reports == {"Success", "Failed"}

\* C16: the events of a yielded commit come in the order "Switching",
\* checkout (real run only), command, report, with nothing in between; a
\* "Switching" message follows the report of the commit yielded before it (or
\* starts the walk); every command has its own report right after it; on the
\* chain base -> 1 -> 2 -> 3 with a command that always succeeds the
\* "Switching" and the "Success" messages come in the order 1, 2, 3.
C16_EventsInOrder ==
    /\ \A i \in EventsOf({"Switching"}) :
          /\ i = 1 \/ trace[i - 1].ev \in Reports \cup {"stash_push", "dirty_error"}
          /\ i > 1 /\ trace[i - 1].ev \in Reports => trace[i - 1].id # trace[i].id
          /\ IF i = Len(trace)
             THEN /\ pc \in {"checkout"} \cup (IF args.dry_run THEN {"command"} ELSE {})
                  /\ current_id = Some(trace[i].id)
             ELSE /\ trace[i + 1].id = trace[i].id
                  /\ trace[i + 1].ev \in
                        (IF args.dry_run THEN {"command"}
                         ELSE {"switch_commit", "checkout_failed"})
    /\ \A i \in CommandEvents :
          /\ i > 1 /\ i < Len(trace)
          /\ trace[i - 1] = Ev(IF args.dry_run THEN "Switching" ELSE "switch_commit",
                               trace[i].id)
          /\ ~args.dry_run => (i > 2 /\ trace[i - 2] = Ev("Switching", trace[i].id))
          /\ trace[i + 1].ev \in Reports /\ trace[i + 1].id = trace[i].id
    /\ \A i \in EventsOf(Reports) :
          i > 1 /\ trace[i - 1].ev = "command" /\ trace[i - 1].id = trace[i].id
    /\ (parent = <<0, 1, 2>> /\ WalkCompleted /\ FailedCmds = {}) =>
          /\ IdsOf(IsSwitching) = <<1, 2, 3>>
          /\ IdsOf(IsSuccess) = <<1, 2, 3>>

C16_Witness ==
    /\ parent = <<0, 1, 2>>
    /\ ~args.dry_run
    /\ Ended
    /\ ExitSite = "result"
    /\ FailedCmds = {}
    /\ IdsOf(IsSuccess) = <<1, 2, 3>>

\* The positions of the frontier that hold a commit not under a stopped subtree.
Ready(c) == {k \in 1..Len(c.frontier) : Ancestors(c.frontier[k]) \cap c.stopped = {}}

\* An upper bound on the number of steps the run still takes: the steps of
\* the commits not yet yielded, plus the steps from the current position.
Rank ==
    LET left == 4 * Cardinality(Nodes \ Yielded)
    IN CASE pc = "start" -> left + 8
         [] pc = "stash" -> left + 7
         [] pc = "dirty" -> left + 6
         [] pc = "base" -> left + 5
         [] pc = "graph" -> left + 4
         [] pc = "checkout" -> left + 6
         [] pc = "command" -> left + 5
         [] pc = "record" -> left + 4
         [] pc = "loop" -> left + 3
         [] pc = "post" -> 2
         [] pc = "finish" -> 1
         [] pc = "done" -> 0

\* What C17 says of every state: no commit is yielded twice, next() returns
\* None exactly when no ready commit is left in the frontier, and after the
\* walk the frontier is empty.
C17_CursorExhausts ==
    /\ \A n \in Nodes : Cardinality({i \in EventsOf({"Switching"}) : trace[i].id = n}) <= 1
    /\ pc = "loop" => ((cursor_next(cursor).out = None) = (Ready(cursor) = {}))
    /\ WalkCompleted => cursor.frontier = <<>>
    /\ ~Ended => ENABLED Next

\* What C17 says of every step: it brings the run closer to its end, and the
\* set of yielded commits only grows.
C17_Progress ==
    /\ Rank' < Rank
    /\ Yielded \subseteq Yielded'

\* C17: on a finite stack graph the walk terminates: the cursor yields each
\* commit at most once and exhausts monotonically, every step of the run
\* brings it closer to its end, and the run ends.
C17_WalkTerminates == <>Ended /\ []C17_CursorExhausts /\ [][C17_Progress]_vars

C17_Witness ==
    /\ Ended
    /\ ExitSite = "result"
    /\ Cardinality(Yielded) >= 3
    /\ cursor.frontier = <<>>

\* The condition of the post-flight under which exec moves to the first failure.
SwitchBranchTaken == ~success /\ args.switch /\ first_failure # Some(head_id)

\* C18: the assertion of the switch-to-failure branch never fails: a stash is
\* only ever pushed when neither --dry-run nor --switch is set, so stash_id
\* is None whenever the post-flight takes that branch, and no run ends in the
\* assertion.
C18_AssertNeverFails ==
    /\ stash_id # None => (~args.dry_run /\ ~args.switch)
    /\ args.switch => EventsOf({"stash_push"}) = {}
    /\ (pc = "post" /\ SwitchBranchTaken) => stash_id = None
    /\ Ended => (ExitSite # "assert" /\ ExitCode # PANIC)

C18_Witness ==
    /\ pc = "post"
    /\ SwitchBranchTaken
    /\ ~args.dry_run
    /\ stash_id = None

\* C19: success is false exactly when first_failure holds a commit, before
\* and after every step of the walk and at post-flight, so the post-flight
\* never unwraps an empty first_failure.
C19_SuccessIffNoFailure ==
    /\ success = (first_failure = None)
    /\ (pc = "post" /\ SwitchBranchTaken) => first_failure # None

C19_Witness ==
    /\ pc = "post"
    /\ SwitchBranchTaken
    /\ first_failure # None
    /\ Cardinality(Visited) >= 2

\* C20: in a real run the command runs for a commit only with the tree on
\* that commit, the checkout right before it; a failed checkout is the last
\* thing the run does: it ends with the generic failure code and the command
\* has not run for that commit.
C20_CheckoutBeforeCommand ==
    ~args.dry_run =>
        /\ pc \in {"command", "record"} => pos = [kind |-> "commit", id |-> Current]
        /\ \A i \in CommandEvents :
              i > 1 /\ trace[i - 1] = Ev("switch_commit", trace[i].id)
        /\ \A i \in EventsOf({"checkout_failed"}) :
              i = Len(trace) /\ Ended /\ ExitCode = FAILURE
        /\ (Ended /\ ExitSite = "checkout") =>
              /\ ExitCode = FAILURE
              /\ trace[Len(trace)] = Ev("checkout_failed", Current)
              /\ Current \notin Visited

C20_Witness ==
    /\ ~args.dry_run
    /\ Ended
    /\ ExitSite = "checkout"
    /\ Visited # {}
    /\ Current \notin Visited
    /\ Nodes \ (Yielded \cup Pruned) # {}

====
